---- MODULE Spec2Model ----
(***************************************************************************)
(* Drag / selection state machine, safety gate and order dispatch of the   *)
(* Kiomet client (client/src/game.rs).                                     *)
(*                                                                         *)
(* Times are in hundredths of a second.  Option<T> is modelled as a        *)
(* sequence of length at most one: None is <<>>, Some(x) is <<x>>.         *)
(***************************************************************************)
EXTENDS Integers, Sequences, FiniteSets, TLC

VARIABLES
    drag,               \* KiometGame.drag : Option<Drag>
    selected_tower_id,  \* KiometGame.selected_tower_id : Option<TowerId>
    panning,            \* KiometGame.panning
    time_seconds,       \* context.client.time_seconds
    player_id,          \* context.player_id() : Option<PlayerId>
    alive,              \* context.state.game.alive
    ticked,             \* context.state.game.ticked
    chunk,              \* context.state.game.world.chunk : TowerId -> Option<Tower>
    observable,         \* towers the local player's sensors reach (input of Visible::update)
    visible,            \* context.state.game.visible
    visible_stale,      \* Visible::update has work to do (a tick passed since its last run)
    updates,            \* number of server updates applied so far
    touched,            \* the tower the server's updates concern : Option<TowerId>
    pan_zoom,           \* KiometGame.pan_zoom : the camera's center and zoom
    was_alive,          \* KiometGame.was_alive
    set_viewport,       \* context.state.game.set_viewport : the rectangle last sent
    set_viewport_rate_limit, \* KiometGame.set_viewport_rate_limit : time accumulated
    sent_at,            \* when Command::SetViewport was last sent : Option<time>
    outbox,             \* commands passed to context.send_to_game by the last handler
    ui_props,           \* KiometUiProps passed to context.set_ui_props by the last handler
    fault,              \* a handler panicked
    ev                  \* the last handler that ran, with the client state it started from

vars == <<drag, selected_tower_id, panning, time_seconds, player_id, alive, ticked,
          chunk, observable, visible, visible_stale, updates, touched, pan_zoom,
          was_alive, set_viewport, set_viewport_rate_limit, sent_at, outbox, ui_props,
          fault, ev>>

(***************************************************************************)
(* The world the client plays in (kodiak/common crates, outside src/): a   *)
(* road of NumTowers towers, each next to its neighbours; a tower's range  *)
(* spans from one edge up to the whole road.                               *)
(***************************************************************************)
NumTowers == 3
MaxDistance == NumTowers - 1

\* tower coordinates per chunk coordinate (common::chunk)
ChunkSize == 2

(***************************************************************************)
(* Bounds                                                                  *)
(***************************************************************************)
TimeStep == 60
MaxTime == 120
MaxUpdates == 1
\* the camera's center stays within MaxCenter of the origin, its zoom within MaxZoom
MaxCenter == 1
MaxZoom == 2
\* the short frame and the horizon of the viewport scenario
ViewStep == 5
ViewMaxTime == 30

(***************************************************************************)
(* Program constants                                                       *)
(***************************************************************************)
RULER_DRAG_DELAY == 120
\* RateLimiter::new(0.15)
SET_VIEWPORT_PERIOD == 15
\* tight_viewport.add_margin(2)
MARGIN == 2

None == <<>>
Some(x) == <<x>>
IsSome(o) == o # <<>>
Unwrap(o) == o[1]

Me == "Me"
Other == "Other"

TowerIds == 1 .. NumTowers
\* cursor positions, as the grid cell nearest to the cursor: over a tower's cell,
\* over the empty cell next to the last tower, or over a cell with no tower in
\* its neighbourhood
Points == TowerIds \cup {NumTowers + 1, NumTowers + 2}

Min(a, b) == IF a < b THEN a ELSE b

(***************************************************************************)
(* World collaborator (common::tower, common::units, common::world)        *)
(***************************************************************************)
TowerTypes == [ranged_distance : 1 .. MaxDistance, generates_mobile_units : BOOLEAN]

\* Units returned by Tower::force_units
NoUnits == [empty |-> TRUE, ruler |-> FALSE, max_edge_distance |-> 0]
Strengths ==
    {NoUnits} \cup [empty : {FALSE}, ruler : BOOLEAN, max_edge_distance : 1 .. MaxDistance]

\* the towers between a and b on the road a - ... - b, both ends included
Road(a, b) ==
    IF a <= b THEN [i \in 1 .. (b - a + 1) |-> a + i - 1]
    ELSE [i \in 1 .. (a - b + 1) |-> a - i + 1]

SupplyLines(n) == {None} \cup {Some(Road(n, m)) : m \in TowerIds \ {n}}

Towers(n) ==
    [player_id : {None, Some(Me), Some(Other)},
     tower_type : TowerTypes,
     units : Strengths,
     supply_line : SupplyLines(n)]

exists(tower_id) == tower_id \in TowerIds /\ IsSome(chunk[tower_id])

is_visible(vis, tower_id) == tower_id \in vis

\* World::find_best_path on a world whose towers lie along one road
find_best_path(start, dest, max_edge_distance, vis) ==
    LET path == Road(start, dest)
    IN  IF /\ Len(path) - 1 <= max_edge_distance
           /\ \A i \in 2 .. (Len(path) - 1) : exists(path[i]) /\ is_visible(vis, path[i])
        THEN Some(path)
        ELSE None

\* Visible::update
VisibleUpdate(vis, stale, all_visible) ==
    IF ~stale THEN vis
    ELSE IF all_visible THEN {n \in TowerIds : exists(n)}
    ELSE {n \in observable : exists(n)}

(***************************************************************************)
(* Camera and rate limiter collaborators (PanZoom, ChunkRectangle,         *)
(* RateLimiter), along one axis                                            *)
(***************************************************************************)
Clamp(x, lo, hi) == IF x < lo THEN lo ELSE IF x > hi THEN hi ELSE x

PanZooms == [center : (0 - MaxCenter) .. MaxCenter, zoom : 1 .. MaxZoom]

\* PanZoom::default, also the value reset_center and reset_zoom restore
DefaultPanZoom == [center |-> 0, zoom |-> 1]

\* PanZoom::pan
Pan(pz, delta) == [pz EXCEPT !.center = Clamp(@ + delta, 0 - MaxCenter, MaxCenter)]

\* PanZoom::multiply_zoom, by steps doublings
MultiplyZoom(pz, steps) == [pz EXCEPT !.zoom = Clamp(@ + steps, 1, MaxZoom)]

\* ChunkRectangle::from(TowerRectangle)
ChunkRectangle(bottom_left, top_right) ==
    [bottom_left |-> bottom_left \div ChunkSize, top_right |-> top_right \div ChunkSize]

\* RateLimiter::update
RateLimiterUpdate(limit, elapsed) == limit + elapsed

\* RateLimiter::ready: whether the period has passed since the last time it was ready
RateLimiterReady(limit) == limit >= SET_VIEWPORT_PERIOD

(***************************************************************************)
(* game.rs helpers                                                         *)
(***************************************************************************)
\* faulty variant of update_visible: refreshes for a session without a player too
update_visible_anonymous == VisibleUpdate(visible, visible_stale, ~alive)

\* update_visible: the visible set after the call
update_visible ==
    IF player_id = None THEN visible
    ELSE VisibleUpdate(visible, visible_stale, ~alive)

update_visible_stale == IF player_id = None THEN visible_stale ELSE FALSE

\* faulty variant of is_perilous: a tower nobody owns is taken to be safe
is_perilous_unowned_safe(tower_id) ==
    IF exists(tower_id)
    THEN /\ Unwrap(chunk[tower_id]).player_id # None
         /\ Unwrap(chunk[tower_id]).player_id # player_id
    ELSE FALSE

is_perilous(tower_id) ==
    IF exists(tower_id) THEN Unwrap(chunk[tower_id]).player_id # player_id ELSE FALSE

RECURSIVE Fold_last(_, _, _, _)
RECURSIVE Fold(_, _, _, _)
\* faulty variant of Fold: a candidate at the same distance replaces the best
Fold_last(best, cs, point, vis) ==
    IF cs = <<>> THEN best
    ELSE LET pos == Head(cs)
             d(t) == (t - point) * (t - point)
             next == IF best = None \/ d(pos) <= d(Unwrap(best)) THEN Some(pos) ELSE best
         IN  Fold_last(next, Tail(cs), point, vis)

\* the fold of get_closest over the candidates cs, in enumeration order
Fold(best, cs, point, vis) ==
    IF cs = <<>> THEN best
    ELSE LET pos == Head(cs)
             d(t) == (t - point) * (t - point)
             next == IF best = None \/ d(pos) < d(Unwrap(best)) THEN Some(pos) ELSE best
         IN  Fold(next, Tail(cs), point, vis)

\* ChunkMap::iter_towers_square(center, 1): the existing towers of the neighbourhood
iter_towers_square(center) ==
    SelectSeq(<<center - 1, center, center + 1>>, LAMBDA t : t \in TowerIds /\ exists(t))

\* faulty variant of get_closest: leaves out the visibility filter
get_closest_unfiltered(point, vis) ==
    Fold(None, iter_towers_square(point), point, vis)

get_closest(point, vis) ==
    Fold(None, SelectSeq(iter_towers_square(point), LAMBDA t : is_visible(vis, t)),
         point, vis)

\* Drag::zip
zip(d) ==
    IF d = None THEN None
    ELSE IF Unwrap(d).current = None THEN None
    ELSE Some([start |-> Unwrap(d).start,
               current |-> Unwrap(Unwrap(d).current).id,
               current_start_time |-> Unwrap(Unwrap(d).current).time])

\* faulty variant of close_tower_menu: leaves the menu open
close_tower_menu_never(d, sel) == sel

\* faulty variant of close_tower_menu: closes the menu during a drag too
close_tower_menu_always(d, sel) == None

\* KiometGame::close_tower_menu: the selection after the call
close_tower_menu(d, sel) == IF d = None THEN None ELSE sel

\* faulty variant of move_world_space: stamps the time on every resolved move
move_world_space_restamp(d, point, vis, now) ==
    IF d = None THEN d
    ELSE LET closest == get_closest(point, vis)
         IN  IF closest # None
             THEN Some([start |-> Unwrap(d).start,
                        current |-> Some([id |-> Unwrap(closest), time |-> now])])
             ELSE Some([start |-> Unwrap(d).start, current |-> None])

\* faulty variant of move_world_space: a cursor over fog cancels the drag
move_world_space_cancel(d, point, vis, now) ==
    IF d = None THEN d
    ELSE LET closest == get_closest(point, vis)
             cur == Unwrap(d).current
             cur_id == IF cur = None THEN None ELSE Some(Unwrap(cur).id)
         IN  IF closest # None
             THEN IF closest # cur_id
                  THEN Some([start |-> Unwrap(d).start,
                             current |-> Some([id |-> Unwrap(closest), time |-> now])])
                  ELSE d
             ELSE None

\* KiometGame::move_world_space: the drag after the call
move_world_space(d, point, vis, now) ==
    IF d = None THEN d
    ELSE LET closest == get_closest(point, vis)
             cur == Unwrap(d).current
             cur_id == IF cur = None THEN None ELSE Some(Unwrap(cur).id)
         IN  IF closest # None
             THEN IF closest # cur_id
                  THEN Some([start |-> Unwrap(d).start,
                             current |-> Some([id |-> Unwrap(closest), time |-> now])])
                  ELSE d
             ELSE Some([start |-> Unwrap(d).start, current |-> None])

DeployForce(path) ==
    [type |-> "DeployForce", tower_id |-> None, path |-> Some(path), viewport |-> None]
SetSupplyLine(tower_id, path) ==
    [type |-> "SetSupplyLine", tower_id |-> Some(tower_id), path |-> path,
     viewport |-> None]
SetViewport(send_viewport) ==
    [type |-> "SetViewport", tower_id |-> None, path |-> None,
     viewport |-> Some(send_viewport)]

\* a handler that started from the client state (drag, selection); pos is the
\* tower its hit test resolved, when it made one
Event(kind, pos) ==
    [kind |-> kind, drag |-> drag, selected |-> selected_tower_id, pos |-> pos,
     moved |-> None, action |-> None, result |-> None]

\* a handler whose starting state is not recorded (the frame update of a living
\* player, with kind "update"; the remaining handlers and the server's updates,
\* with kind "other")
Plain(kind) ==
    [kind |-> kind, drag |-> None, selected |-> None, pos |-> None, moved |-> None,
     action |-> None, result |-> None]

\* a frame update that ran move_world_space on the drag that began at start, the
\* hit test of the cursor having resolved hit
Moved(start, hit) ==
    [kind |-> "update", drag |-> None, selected |-> None, pos |-> None,
     moved |-> Some([start |-> start, hit |-> hit]), action |-> None, result |-> None]

\* a call of a script with action, of which the type is recorded, and the tower
\* of a select_tower; result is what the call returned, None when it did not
\* return
Script(action, result) ==
    [kind |-> "script", drag |-> None, selected |-> None, pos |-> None, moved |-> None,
     action |-> Some([type |-> action.type,
                      tower_id |-> IF action.type = "select_tower"
                                   THEN action.tower_id ELSE 0]),
     result |-> result]

(***************************************************************************)
(* Initial state: KiometGame::new, in the world of the drag scenario:      *)
(* tower 1 is ours and holds the ruler, tower 2 is foreign, tower 3 is     *)
(* ours and has a supply line.                                             *)
(***************************************************************************)
InitTower(n) ==
    [player_id |-> IF n % 2 = 1 THEN Some(Me) ELSE Some(Other),
     tower_type |-> [ranged_distance |-> MaxDistance, generates_mobile_units |-> TRUE],
     units |-> [empty |-> FALSE, ruler |-> (n = 1), max_edge_distance |-> MaxDistance],
     supply_line |-> IF n = 3 THEN Some(Road(3, 2)) ELSE None]

Init ==
    /\ drag = None
    /\ selected_tower_id = None
    /\ panning = FALSE
    /\ time_seconds = 0
    /\ player_id \in {None, Some(Me)}
    /\ alive = TRUE
    /\ ticked = FALSE
    /\ chunk = [n \in TowerIds |-> Some(InitTower(n))]
    /\ observable = TowerIds
    /\ visible = {}
    /\ visible_stale = TRUE
    /\ updates = 0
    /\ touched = None
    /\ pan_zoom = DefaultPanZoom
    /\ was_alive = FALSE
    /\ set_viewport = None
    /\ set_viewport_rate_limit = 0
    /\ sent_at = None
    /\ outbox = <<>>
    /\ ui_props = None
    /\ fault = FALSE
    /\ ev = Plain("new")

world_unchanged == UNCHANGED <<player_id, alive, chunk, observable, updates, touched>>

view_unchanged ==
    UNCHANGED <<pan_zoom, was_alive, set_viewport, set_viewport_rate_limit, sent_at>>

(***************************************************************************)
(* Environment: the server's updates, applied between the client's         *)
(* handlers.  Each update changes one thing and marks a tick; the updates  *)
(* of one behaviour are at most MaxUpdates and concern one tower.          *)
(***************************************************************************)
\* the towers that differ from tower n in exactly one field
Changed(n) ==
    LET old == Unwrap(chunk[n])
    IN  {[old EXCEPT !.player_id = v] : v \in {None, Some(Me), Some(Other)} \ {old.player_id}}
        \cup {[old EXCEPT !.tower_type = v] : v \in TowerTypes \ {old.tower_type}}
        \cup {[old EXCEPT !.units = v] : v \in Strengths \ {old.units}}
        \cup {[old EXCEPT !.supply_line = v] : v \in SupplyLines(n) \ {old.supply_line}}

TowerUpdate(n) ==
    /\ exists(n)
    /\ \E tower \in Changed(n) : chunk' = [chunk EXCEPT ![n] = Some(tower)]
    /\ UNCHANGED <<observable, alive>>

TowerRemoved(n) ==
    /\ exists(n)
    /\ chunk' = [chunk EXCEPT ![n] = None]
    /\ UNCHANGED <<observable, alive>>

SensorUpdate(n) ==
    /\ observable' = IF n \in observable THEN observable \ {n} ELSE observable \cup {n}
    /\ UNCHANGED <<chunk, alive>>

AliveUpdate ==
    /\ alive' = ~alive
    /\ UNCHANGED <<chunk, observable>>

ServerUpdate ==
    /\ ~fault
    /\ updates < MaxUpdates
    /\ \/ \E n \in TowerIds :
             /\ touched \in {None, Some(n)}
             /\ touched' = Some(n)
             /\ TowerUpdate(n) \/ TowerRemoved(n) \/ SensorUpdate(n)
       \/ AliveUpdate /\ touched' = touched
    /\ updates' = updates + 1
    /\ ticked' = TRUE
    /\ visible_stale' = TRUE
    /\ outbox' = <<>>
    /\ ui_props' = None
    /\ ev' = Plain("other")
    /\ UNCHANGED <<drag, selected_tower_id, panning, time_seconds, player_id, visible, fault>>
    /\ view_unchanged

\* the server assigns the session its player
SessionCreated ==
    /\ ~fault
    /\ player_id = None
    /\ player_id' = Some(Me)
    /\ outbox' = <<>>
    /\ ui_props' = None
    /\ ev' = Plain("other")
    /\ UNCHANGED <<drag, selected_tower_id, panning, time_seconds, alive, ticked, chunk,
                   observable, visible, visible_stale, updates, touched, fault>>
    /\ view_unchanged

(***************************************************************************)
(* KiometGame::peek_mouse                                                  *)
(***************************************************************************)
\* the drag a left button press over drag_start begins
NewDrag(drag_start, now) ==
    Some([start |-> drag_start, current |-> Some([id |-> drag_start, time |-> now])])

\* faulty variant of PressSelection: a press leaves the selection where it was
PressSelection_kept(sel, drag_start) == sel

\* faulty variant of PressSelection: clears the selection on every press
PressSelection_clear(sel, drag_start) == None

\* the selection a left button press over drag_start leaves
PressSelection(sel, drag_start) ==
    IF sel # Some(drag_start)
    THEN None  \* if they were equal, wait for mouse up before clearing selection
    ELSE sel

\* faulty variant of peek_mouse_visible: the arms read the set as it was before
\* the refresh
peek_mouse_visible_stale == visible

\* the visible set the arms of peek_mouse read: update_visible has run first
peek_mouse_visible == update_visible

\* the hit test of a left button press: context.mouse.view_position.and_then(get_closest)
PressHit(pos, vis) == IF pos = None THEN None ELSE get_closest(Unwrap(pos), vis)

\* faulty variant of MissSelection: a press over nothing leaves the selection open
MissSelection_kept(sel) == sel

\* the selection a left button press over no visible tower leaves
MissSelection(sel) == None

\* faulty variant of PressArmed: a press while panning is taken all the same
PressArmed_while_panning(d, pan) == d = None

\* whether a left button press is taken: self.drag.is_none() && !self.panning
PressArmed(d, pan) == d = None /\ ~pan

\* MouseEvent::Button { button: Left, down: true }, the cursor being at pos
LeftDown(pos) ==
    /\ ~fault
    /\ visible' = update_visible
    /\ visible_stale' = update_visible_stale
    /\ IF PressArmed(drag, panning)
       THEN LET drag_start == PressHit(pos, peek_mouse_visible)
            IN  IF drag_start # None
                THEN /\ drag' = NewDrag(Unwrap(drag_start), time_seconds)
                     /\ selected_tower_id' =
                            PressSelection(selected_tower_id, Unwrap(drag_start))
                ELSE /\ selected_tower_id' = MissSelection(selected_tower_id)
                     /\ drag' = drag
       ELSE UNCHANGED <<drag, selected_tower_id>>
    /\ outbox' = <<>>
    /\ ui_props' = None
    /\ ev' = Event("left_down",
                   IF PressArmed(drag, panning) THEN PressHit(pos, peek_mouse_visible) ELSE None)
    /\ UNCHANGED <<panning, time_seconds, ticked, fault>>
    /\ world_unchanged
    /\ view_unchanged

\* faulty variant of ToggleSelection: never deselects
ToggleSelection_select(sel, start) == Some(start)

\* the selection a release leaves when the drag ends on the tower it began on
ToggleSelection(sel, start) ==
    IF sel = Some(start)
    THEN None  \* double click to deselect
    ELSE Some(start)

\* faulty variant of ReleasedDrag: the release forgets to end the drag
ReleasedDrag_kept(d) == d

\* the drag a release leaves
ReleasedDrag(d) == None

\* what the release of a drag from start to current does, both towers existing:
\* the selection it leaves, and the command it sends
ReleaseSelection(start) ==
    IF selected_tower_id # Some(start) THEN None ELSE selected_tower_id

\* faulty variant of max_edge_distance: the range of the tower type alone
max_edge_distance_tower_only(source_tower) ==
    source_tower.tower_type.ranged_distance

max_edge_distance(source_tower) ==
    LET strength == source_tower.units
        tower_edge_distance == source_tower.tower_type.ranged_distance
    IN  IF ~strength.empty
        THEN Min(strength.max_edge_distance, tower_edge_distance)
        ELSE tower_edge_distance

\* faulty variant of supply_tower_id: ignores what the tower produces
supply_tower_id_any_type(start, source_tower) ==
    IF /\ ReleaseSelection(start) # None
       /\ max_edge_distance(source_tower) = source_tower.tower_type.ranged_distance
    THEN ReleaseSelection(start)
    ELSE None

\* faulty variant of supply_tower_id: ignores the shortening of the range
supply_tower_id_any_range(start, source_tower) ==
    IF /\ ReleaseSelection(start) # None
       /\ source_tower.tower_type.generates_mobile_units
    THEN ReleaseSelection(start)
    ELSE None

supply_tower_id(start, source_tower) ==
    LET shorter_max_edge_distance ==
            max_edge_distance(source_tower) # source_tower.tower_type.ranged_distance
    IN  IF /\ ReleaseSelection(start) # None
           /\ source_tower.tower_type.generates_mobile_units
           /\ ~shorter_max_edge_distance
        THEN ReleaseSelection(start)
        ELSE None

\* faulty variant of GateOpen: compares with the stamp, without the delay
GateOpen_no_delay(path, strength, current_start_time, now) ==
    LET perilous == \E i \in 1 .. Len(path) : is_perilous(path[i])
    IN  \/ ~perilous
        \/ ~strength.ruler
        \/ now >= current_start_time

\* faulty variant of GateOpen: opens only after the delay, not at it
GateOpen_strict(path, strength, current_start_time, now) ==
    LET perilous == \E i \in 1 .. Len(path) : is_perilous(path[i])
    IN  \/ ~perilous
        \/ ~strength.ruler
        \/ now > current_start_time + RULER_DRAG_DELAY

\* faulty variant of GateOpen: delays every path that carries the ruler
GateOpen_any_path(path, strength, current_start_time, now) ==
    \/ ~strength.ruler
    \/ now >= current_start_time + RULER_DRAG_DELAY

\* the safety gate of the release
GateOpen(path, strength, current_start_time, now) ==
    LET perilous == \E i \in 1 .. Len(path) : is_perilous(path[i])
    IN  \/ ~perilous
        \/ ~strength.ruler
        \/ now >= current_start_time + RULER_DRAG_DELAY

\* faulty variant of ReleaseCommand: sends the path also when it is the line in place
ReleaseCommand_always_path(start, source_tower, path) ==
    LET supply == supply_tower_id(start, source_tower)
    IN  IF supply # None
        THEN SetSupplyLine(Unwrap(supply), Some(path))
        ELSE DeployForce(path)

ReleaseCommand(start, source_tower, path) ==
    LET supply == supply_tower_id(start, source_tower)
    IN  IF supply # None
        THEN SetSupplyLine(Unwrap(supply),
                           IF source_tower.supply_line # Some(path) THEN Some(path) ELSE None)
        ELSE DeployForce(path)

\* faulty variant of ReleaseOutbox: deploys along with setting the supply line
ReleaseOutbox_both(z, vis) ==
    LET source_tower == Unwrap(chunk[z.start])
        path == find_best_path(z.start, z.current, max_edge_distance(source_tower), vis)
    IN  IF /\ path # None
           /\ GateOpen(Unwrap(path), source_tower.units, z.current_start_time, time_seconds)
        THEN IF supply_tower_id(z.start, source_tower) # None
             THEN <<ReleaseCommand(z.start, source_tower, Unwrap(path)),
                    DeployForce(Unwrap(path))>>
             ELSE <<ReleaseCommand(z.start, source_tower, Unwrap(path))>>
        ELSE <<>>

\* faulty variant of ReleaseOutbox: deploys straight to the target when no path is found
ReleaseOutbox_no_path(z, vis) ==
    LET source_tower == Unwrap(chunk[z.start])
        path == find_best_path(z.start, z.current, max_edge_distance(source_tower), vis)
    IN  IF path = None
        THEN <<DeployForce(<<z.start, z.current>>)>>
        ELSE IF GateOpen(Unwrap(path), source_tower.units, z.current_start_time,
                         time_seconds)
        THEN <<ReleaseCommand(z.start, source_tower, Unwrap(path))>>
        ELSE <<>>

ReleaseOutbox(z, vis) ==
    LET source_tower == Unwrap(chunk[z.start])
        path == find_best_path(z.start, z.current, max_edge_distance(source_tower), vis)
    IN  IF /\ path # None
           /\ GateOpen(Unwrap(path), source_tower.units, z.current_start_time, time_seconds)
        THEN <<ReleaseCommand(z.start, source_tower, Unwrap(path))>>
        ELSE <<>>

\* faulty variant of VanishedSelection: a release over a vanished tower keeps the selection
VanishedSelection_kept(sel) == sel

\* the selection a release leaves when the drag's start or current no longer exists
VanishedSelection(sel) == None

\* faulty variant of UnresolvedSelection: a release over fog keeps the selection
UnresolvedSelection_kept(sel) == sel

\* the selection a release leaves when Drag::zip yields nothing
UnresolvedSelection(sel) == None

\* MouseEvent::Button { button: Left, down: false }
LeftUp ==
    /\ ~fault
    /\ visible' = update_visible
    /\ visible_stale' = update_visible_stale
    /\ LET z == zip(drag)
       IN  IF z # None
           THEN LET start == Unwrap(z).start
                    current == Unwrap(z).current
                IN  IF start = current
                    THEN /\ selected_tower_id' = ToggleSelection(selected_tower_id, start)
                         /\ outbox' = <<>>
                         /\ drag' = ReleasedDrag(drag)
                         /\ fault' = FALSE
                    ELSE IF exists(start) /\ exists(current)
                    THEN /\ selected_tower_id' = ReleaseSelection(start)
                         /\ IF player_id = None
                            THEN \* context.player_id().unwrap() panics
                                 /\ fault' = TRUE
                                 /\ outbox' = <<>>
                                 /\ drag' = drag
                            ELSE /\ fault' = FALSE
                                 /\ outbox' = ReleaseOutbox(Unwrap(z), peek_mouse_visible)
                                 /\ drag' = ReleasedDrag(drag)
                    ELSE /\ selected_tower_id' = VanishedSelection(selected_tower_id)
                         /\ outbox' = <<>>
                         /\ drag' = ReleasedDrag(drag)
                         /\ fault' = FALSE
           ELSE /\ selected_tower_id' = UnresolvedSelection(selected_tower_id)
                /\ outbox' = <<>>
                /\ drag' = ReleasedDrag(drag)
                /\ fault' = FALSE
    /\ ui_props' = None
    /\ ev' = Event("left_up", None)
    /\ UNCHANGED <<panning, time_seconds, ticked>>
    /\ world_unchanged
    /\ view_unchanged

\* MouseEvent::Button { button: Right, down }
RightButton(down) ==
    /\ ~fault
    /\ visible' = update_visible
    /\ visible_stale' = update_visible_stale
    /\ selected_tower_id' = close_tower_menu(drag, selected_tower_id)
    /\ panning' = down
    /\ outbox' = <<>>
    /\ ui_props' = None
    /\ ev' = Plain("other")
    /\ UNCHANGED <<drag, time_seconds, ticked, fault>>
    /\ world_unchanged
    /\ view_unchanged

\* MouseEvent::Wheel(delta), delta in thirds of a doubling
Wheel(delta) ==
    /\ ~fault
    /\ visible' = update_visible
    /\ visible_stale' = update_visible_stale
    /\ selected_tower_id' = close_tower_menu(drag, selected_tower_id)
    /\ pan_zoom' = MultiplyZoom(pan_zoom, delta)
    /\ outbox' = <<>>
    /\ ui_props' = None
    /\ ev' = Plain("other")
    /\ UNCHANGED <<drag, panning, time_seconds, ticked, fault>>
    /\ UNCHANGED <<was_alive, set_viewport, set_viewport_rate_limit, sent_at>>
    /\ world_unchanged

\* MouseEvent::MoveViewSpace, the cursor having moved by delta in world space
\* since the last known position: pans the camera only
MoveViewSpace(delta) ==
    /\ ~fault
    /\ visible' = update_visible
    /\ visible_stale' = update_visible_stale
    /\ pan_zoom' = IF panning THEN Pan(pan_zoom, delta) ELSE pan_zoom
    /\ outbox' = <<>>
    /\ ui_props' = None
    /\ ev' = Plain("other")
    /\ UNCHANGED <<drag, selected_tower_id, panning, time_seconds, ticked, fault>>
    /\ UNCHANGED <<was_alive, set_viewport, set_viewport_rate_limit, sent_at>>
    /\ world_unchanged

(***************************************************************************)
(* KiometGame::update, one frame: elapsed time has passed, the cursor is   *)
(* at pos, shift_r tells whether Shift and R are both down, and keys is    *)
(* the set of pan and zoom keys that are down.                             *)
(***************************************************************************)
Down(keys, key) == IF key \in keys THEN 1 ELSE 0

\* the camera after the frame's key handling
KeyPanZoom(pz, keys, elapsed) ==
    IF elapsed = 0 THEN pz
    ELSE MultiplyZoom(Pan(pz, Down(keys, "Left") - Down(keys, "Right")),
                      Down(keys, "E") - Down(keys, "Q"))

\* the camera the frame leaves
FramePanZoom(keys, elapsed) ==
    IF alive
    THEN KeyPanZoom(IF ~was_alive THEN DefaultPanZoom ELSE pan_zoom, keys, elapsed)
    ELSE DefaultPanZoom

\* ChunkRectangle::from(margin_viewport) of the camera pz
send_viewport(pz) ==
    ChunkRectangle(pz.center - pz.zoom - MARGIN, pz.center + pz.zoom + MARGIN)

\* faulty variant of FrameLimit: the limiter advances only while a change is pending
FrameLimit_on_change(rect, limit, elapsed) ==
    IF Some(rect) # set_viewport THEN RateLimiterUpdate(limit, elapsed) ELSE limit

\* the limiter after the frame's set_viewport_rate_limit.update(elapsed_seconds)
FrameLimit(rect, limit, elapsed) == RateLimiterUpdate(limit, elapsed)

\* faulty variant of SendsViewport: sends whenever the limiter is ready
SendsViewport_resend(rect, limit) == RateLimiterReady(limit)

\* faulty variant of SendsViewport: sends every new rectangle at once
SendsViewport_unlimited(rect, limit) == Some(rect) # set_viewport

\* whether the frame sends its viewport: the rectangle is new and the limiter ready
SendsViewport(rect, limit) == Some(rect) # set_viewport /\ RateLimiterReady(limit)

\* faulty variant of DeathDrag: a dead player's drag goes on
DeathDrag_kept(d) == d

\* the drag a frame of a dead player leaves
DeathDrag(d) == None

\* the selection a frame of a dead player leaves
DeathSelection(sel) == None

\* faulty variant of KeySelection: every frame closes the menu
KeySelection_every_frame(keys, d, sel) == close_tower_menu(d, sel)

\* the selection a frame of a living player leaves: a pan or zoom key closes the menu
KeySelection(keys, d, sel) == IF keys # {} THEN close_tower_menu(d, sel) ELSE sel

\* faulty variant of SelectedTower: the menu is shown during a drag too
SelectedTower_during_drag(sel, d) ==
    IF sel = None THEN None
    ELSE IF exists(Unwrap(sel))
    THEN Some([tower_id |-> Unwrap(sel), tower |-> Unwrap(chunk[Unwrap(sel)])])
    ELSE None

\* the selected tower the frame hands to the UI
SelectedTower(sel, d) ==
    IF sel = None THEN None
    ELSE IF d # None THEN None  \* do not obstruct the drag
    ELSE IF exists(Unwrap(sel))
    THEN Some([tower_id |-> Unwrap(sel), tower |-> Unwrap(chunk[Unwrap(sel)])])
    ELSE None

\* the props of the frame
KiometUiProps(sel, d) == [alive |-> alive, selected_tower |-> SelectedTower(sel, d)]

\* faulty variant of ClearSupplyLine: clears the visible supply lines on every
\* frame, tick or not
ClearSupplyLine_every_frame(sel, vis, was_ticked) ==
    IF sel # None
    THEN IF exists(Unwrap(sel)) /\ Unwrap(chunk[Unwrap(sel)]).supply_line # None
         THEN <<SetSupplyLine(Unwrap(sel), None)>>
         ELSE <<>>
    ELSE LET mine == {id \in vis :
                        /\ exists(id)
                        /\ Unwrap(chunk[id]).supply_line # None
                        /\ Unwrap(chunk[id]).player_id # None
                        /\ Unwrap(chunk[id]).player_id = player_id}
         IN  IF mine # {}
             THEN <<SetSupplyLine(CHOOSE id \in mine : \A o \in mine : id <= o, None)>>
             ELSE <<>>

\* the supply line clearing of the frame
ClearSupplyLine(sel, vis, was_ticked) ==
    IF sel # None
    THEN IF exists(Unwrap(sel)) /\ Unwrap(chunk[Unwrap(sel)]).supply_line # None
         THEN <<SetSupplyLine(Unwrap(sel), None)>>
         ELSE <<>>
    ELSE IF was_ticked
    THEN LET mine == {id \in vis :
                        /\ exists(id)
                        /\ Unwrap(chunk[id]).supply_line # None
                        /\ Unwrap(chunk[id]).player_id # None
                        /\ Unwrap(chunk[id]).player_id = player_id}
         IN  IF mine # {}
             THEN <<SetSupplyLine(CHOOSE id \in mine : \A o \in mine : id <= o, None)>>
             ELSE <<>>
    ELSE <<>>

update(elapsed, pos, shift_r, keys) ==
    /\ ~fault
    /\ time_seconds + elapsed <= MaxTime
    /\ time_seconds' = time_seconds + elapsed
    /\ visible' = update_visible
    /\ visible_stale' = update_visible_stale
    /\ LET moved == IF pos # None
                    THEN move_world_space(drag, Unwrap(pos), visible', time_seconds')
                    ELSE drag
       IN  IF alive
           THEN /\ drag' = moved
                /\ selected_tower_id' = KeySelection(keys, drag', selected_tower_id)
           ELSE /\ drag' = DeathDrag(moved)
                /\ selected_tower_id' = DeathSelection(selected_tower_id)
    /\ pan_zoom' = FramePanZoom(keys, elapsed)
    /\ LET clear == IF shift_r
                    THEN ClearSupplyLine(selected_tower_id, visible', ticked)
                    ELSE <<>>
           rect == send_viewport(pan_zoom')
           limit == FrameLimit(rect, set_viewport_rate_limit, elapsed)
       IN  IF SendsViewport(rect, limit)
           THEN /\ outbox' = clear \o <<SetViewport(rect)>>
                /\ set_viewport' = Some(rect)
                /\ set_viewport_rate_limit' = 0
                /\ sent_at' = Some(time_seconds')
           ELSE /\ outbox' = clear
                /\ set_viewport' = set_viewport
                /\ set_viewport_rate_limit' = limit
                /\ sent_at' = sent_at
    /\ was_alive' = alive
    /\ ticked' = FALSE
    /\ ui_props' = Some(KiometUiProps(selected_tower_id', drag'))
    /\ ev' = IF ~alive THEN Event("update", None)
             ELSE IF drag # None /\ pos # None
             THEN Moved(Unwrap(drag).start, get_closest(Unwrap(pos), visible'))
             ELSE Plain("update")
    /\ UNCHANGED <<panning, fault>>
    /\ world_unchanged

(***************************************************************************)
(* KiometGame::draw_drag_path, the preview render draws of the drag d      *)
(* beside the selection sel, with the visible set vis at time now          *)
(***************************************************************************)
\* the range of the preview: that of the tower type, cut down to that of the
\* force when the tower holds one
preview_max_edge_distance(source_tower) ==
    LET strength == source_tower.units
        tower_edge_distance == source_tower.tower_type.ranged_distance
        strength_edge_distance == IF ~strength.empty
                                  THEN Some(strength.max_edge_distance)
                                  ELSE None
    IN  IF strength_edge_distance = None
        THEN tower_edge_distance
        ELSE Min(Unwrap(strength_edge_distance), tower_edge_distance)

\* whether the preview draws the route as a supply line
do_supply_line(sel, source_tower) ==
    LET shorter_max_edge_distance ==
            preview_max_edge_distance(source_tower)
                # source_tower.tower_type.ranged_distance
    IN  /\ sel # None
        /\ source_tower.tower_type.generates_mobile_units
        /\ ~shorter_max_edge_distance

\* whether the countdown is shown as ready: progress > 1.0, progress being
\* elapsed * (1.0 / RULER_DRAG_DELAY)
PreviewReady(elapsed) == elapsed > RULER_DRAG_DELAY

\* World::find_best_incomplete_path on the road: the longest prefix of the road
\* to dest that is within range and whose towers after the start, dest apart,
\* exist and are visible; it holds at least the start
find_best_incomplete_path(start, dest, max_distance, vis) ==
    LET path == Road(start, dest)
        reach == {k \in 1 .. Len(path) :
                    /\ k - 1 <= max_distance
                    /\ \A i \in 2 .. k :
                           i = Len(path) \/ (exists(path[i]) /\ is_visible(vis, path[i]))}
        best == CHOOSE k \in reach : \A o \in reach : o <= k
    IN  SubSeq(path, 1, best)

\* the towers the preview draws: the incomplete path without current, then current
PreviewChain(z, source_tower, vis) ==
    SelectSeq(find_best_incomplete_path(z.start, z.current,
                                        preview_max_edge_distance(source_tower), vis),
              LAMBDA t : t # z.current) \o <<z.current>>

\* RoadLayer::draw_path: whether the towers drawn make a route within range,
\* each next to the one before
PreviewViable(chain, max_distance) ==
    /\ Len(chain) - 1 <= max_distance
    /\ \A i \in 1 .. (Len(chain) - 1) :
           chain[i + 1] - chain[i] \in {0 - 1, 1}

\* whether the preview gets as far as drawing a route for the zipped drag z
PreviewDraws(z, sel) ==
    /\ exists(z.start)
    /\ Unwrap(chunk[z.start]).player_id # None
    /\ Unwrap(chunk[z.start]).player_id = player_id
    /\ ~(Unwrap(chunk[z.start]).units.empty /\ ~do_supply_line(sel, Unwrap(chunk[z.start])))

\* the ruler countdown of the preview: None when it is not drawn, else whether
\* it is shown as ready
PreviewCountdown(d, sel, vis, now) ==
    LET z == zip(d)
    IN  IF z = None THEN None
        ELSE IF ~PreviewDraws(Unwrap(z), sel) THEN None
        ELSE LET source_tower == Unwrap(chunk[Unwrap(z).start])
                 chain == PreviewChain(Unwrap(z), source_tower, vis)
                 viable == PreviewViable(chain, preview_max_edge_distance(source_tower))
                 perilous == \E i \in 1 .. Len(chain) : is_perilous(chain[i])
             IN  IF viable /\ perilous /\ source_tower.units.ruler
                 THEN Some(PreviewReady(now - Unwrap(z).current_start_time))
                 ELSE None

(***************************************************************************)
(* KiometGame::ui: the events of the tower menu and the other panels       *)
(***************************************************************************)
\* PanZoom::pan_to
PanTo(pz, center) == [pz EXCEPT !.center = Clamp(center, 0 - MaxCenter, MaxCenter)]

\* a command the core hands on as it is
PassThrough(type) == [type |-> type, tower_id |-> None, path |-> None, viewport |-> None]

UiEvents ==
    {[type |-> t, tower_id |-> 0] : t \in {"Alliance", "Upgrade", "Spawn", "Dismiss"}}
    \cup {[type |-> "PanTo", tower_id |-> n] : n \in {1, NumTowers}}

ui(event) ==
    /\ ~fault
    /\ selected_tower_id' =
           IF event.type \in {"Alliance", "Upgrade"}
           THEN close_tower_menu(drag, selected_tower_id)
           ELSE selected_tower_id
    /\ outbox' = IF event.type \in {"Alliance", "Upgrade", "Spawn"}
                 THEN <<PassThrough(event.type)>>
                 ELSE <<>>
    /\ pan_zoom' = IF event.type = "PanTo" THEN PanTo(pan_zoom, event.tower_id) ELSE pan_zoom
    /\ ui_props' = None
    /\ ev' = Plain("ui")
    /\ UNCHANGED <<drag, panning, time_seconds, ticked, visible, visible_stale, fault>>
    /\ UNCHANGED <<was_alive, set_viewport, set_viewport_rate_limit, sent_at>>
    /\ world_unchanged

(***************************************************************************)
(* kiomet_do_action, the entry point of scripts.  It reaches the game      *)
(* through KIOMET_GAME_PTR, the address the game had inside new, before    *)
(* new returned it by value: the call may find the game there, may find    *)
(* the bytes of a game that has moved away, or may fail.                   *)
(***************************************************************************)
\* the towers scripts name: the last tower of the road, and a cell without tower
ScriptTowers == {NumTowers, NumTowers + 1}

ScriptActions ==
    {[type |-> "SetSupplyLine", tower_id |-> t, path |-> path, x |-> 0] :
        t \in ScriptTowers, path \in SupplyLines(NumTowers)}
    \cup {[type |-> k, tower_id |-> t, path |-> None, x |-> 0] :
             k \in {"Upgrade", "select_tower"}, t \in ScriptTowers}
    \cup {[type |-> k, tower_id |-> 0, path |-> None, x |-> 0] :
             k \in {"deselect_tower", "unknown"}}
    \cup {[type |-> "pan_camera", tower_id |-> 0, path |-> None, x |-> MaxCenter]}

\* the world after the action has run on the game
ScriptChunk(action) ==
    IF action.type = "SetSupplyLine" /\ exists(action.tower_id)
    THEN [chunk EXCEPT ![action.tower_id] =
              Some([Unwrap(chunk[action.tower_id]) EXCEPT !.supply_line = action.path])]
    ELSE chunk

\* the selection after the action has run on the game
ScriptSelection(action, sel) ==
    IF action.type = "select_tower" THEN Some(action.tower_id)
    ELSE IF action.type = "deselect_tower" THEN None
    ELSE sel

\* the camera after the action has run on the game
ScriptPanZoom(action, pz) ==
    IF action.type = "pan_camera" THEN PanTo(pz, action.x) ELSE pz

\* the pointer new has registered; nothing resets it afterwards
KIOMET_GAME_PTR == Some("KiometGame")

\* what the call returns: false without a registered game; true for whatever
\* parses as a Command and for the custom actions it knows, false otherwise
ScriptResult(ptr, action) ==
    IF ptr = None THEN FALSE
    ELSE IF action.type \in {"SetSupplyLine", "Upgrade"} THEN TRUE
    ELSE IF action.type \in {"pan_camera", "select_tower", "deselect_tower"} THEN TRUE
    ELSE FALSE

kiomet_do_action(action) ==
    /\ ~fault
    /\ \/ \* the pointer still leads to the game
          /\ chunk' = ScriptChunk(action)
          /\ selected_tower_id' = ScriptSelection(action, selected_tower_id)
          /\ pan_zoom' = ScriptPanZoom(action, pan_zoom)
          /\ fault' = FALSE
          /\ ev' = Script(action, Some(ScriptResult(KIOMET_GAME_PTR, action)))
       \/ \* the pointer leads to what is left of a game that has moved
          /\ UNCHANGED <<chunk, selected_tower_id, pan_zoom, fault>>
          /\ ev' = Script(action, Some(ScriptResult(KIOMET_GAME_PTR, action)))
       \/ \* the access through the dangling pointer fails
          /\ fault' = TRUE
          /\ UNCHANGED <<chunk, selected_tower_id, pan_zoom>>
          /\ ev' = Script(action, None)
    /\ outbox' = <<>>
    /\ ui_props' = None
    /\ UNCHANGED <<drag, panning, time_seconds, player_id, alive, ticked, observable,
                   visible, visible_stale, updates, touched>>
    /\ UNCHANGED <<was_alive, set_viewport, set_viewport_rate_limit, sent_at>>

PointInputs == {None} \cup {Some(p) : p \in Points}

\* key combinations that leave the camera where it is: none, or opposite keys
StillKeys == {{}, {"Left", "Right"}}

\* what a frame finds: the cursor somewhere and no key down, or keys down while
\* the cursor is outside the window
FrameInputs ==
    {[pos |-> pos, shift_r |-> FALSE, keys |-> {}] : pos \in PointInputs}
    \cup {[pos |-> None, shift_r |-> shift_r, keys |-> keys] :
             shift_r \in BOOLEAN, keys \in StillKeys}

Next ==
    \/ ServerUpdate
    \/ SessionCreated
    \/ \E pos \in PointInputs : LeftDown(pos)
    \/ LeftUp
    \/ \E down \in BOOLEAN : RightButton(down)
    \/ Wheel(0)
    \/ MoveViewSpace(0)
    \/ \E elapsed \in {0, TimeStep}, in \in FrameInputs :
          update(elapsed, in.pos, in.shift_r, in.keys)

Spec == Init /\ [][Next]_vars

(***************************************************************************)
(* The viewport scenario: the same handlers, with the cursor outside the   *)
(* window (no drag begins), short frames, and keys, wheel and mouse moves  *)
(* that move the camera; the server only reports the player's death or     *)
(* respawn.                                                                *)
(***************************************************************************)
\* one pan or zoom key at a time, or none
MoveKeys == {{}, {"Left"}, {"Right"}, {"Q"}, {"E"}}

ViewFrame ==
    \E elapsed \in {0, ViewStep, 3 * ViewStep}, keys \in MoveKeys :
        /\ time_seconds + elapsed <= ViewMaxTime
        /\ update(elapsed, None, FALSE, keys)

ViewServerUpdate == ServerUpdate /\ UNCHANGED <<chunk, observable>>

ViewNext ==
    \/ ViewServerUpdate
    \/ \E down \in BOOLEAN : RightButton(down)
    \/ \E delta \in {0 - 1, 1} : Wheel(delta)
    \/ \E delta \in {0 - 1, 1} : MoveViewSpace(delta)
    \/ ViewFrame

ViewInit == Init /\ player_id = Some(Me)

ViewSpec == ViewInit /\ [][ViewNext]_vars

(***************************************************************************)
(* The scripting scenario: the handlers of the drag scenario together with *)
(* the events of the menu and the actions of scripts, in a world the       *)
(* server leaves alone but for the player's death or respawn.              *)
(***************************************************************************)
ScriptNext ==
    \/ ViewServerUpdate
    \/ \E action \in ScriptActions : kiomet_do_action(action)
    \/ \E event \in UiEvents : ui(event)
    \/ \E pos \in PointInputs : LeftDown(pos)
    \/ LeftUp
    \/ \E down \in BOOLEAN : RightButton(down)
    \/ Wheel(0)
    \/ MoveViewSpace(0)
    \/ \E elapsed \in {0, TimeStep}, in \in FrameInputs :
          update(elapsed, in.pos, in.shift_r, in.keys)

ScriptSpec == ViewInit /\ [][ScriptNext]_vars

(***************************************************************************)
(* The menu scenario: the handlers of the drag scenario together with the  *)
(* events of the menu that leave the camera where it is, in a world the    *)
(* server leaves alone but for the player's death or respawn.              *)
(***************************************************************************)
MenuEvents == {event \in UiEvents : event.type # "PanTo"}

MenuNext ==
    \/ ViewServerUpdate
    \/ SessionCreated
    \/ \E event \in MenuEvents : ui(event)
    \/ \E pos \in PointInputs : LeftDown(pos)
    \/ LeftUp
    \/ \E down \in BOOLEAN : RightButton(down)
    \/ Wheel(0)
    \/ MoveViewSpace(0)
    \/ \E elapsed \in {0, TimeStep}, in \in FrameInputs :
          update(elapsed, in.pos, in.shift_r, in.keys)

MenuSpec == Init /\ [][MenuNext]_vars

TypeOK ==
    /\ panning \in BOOLEAN
    /\ time_seconds \in 0 .. MaxTime
    /\ visible \subseteq TowerIds

(***************************************************************************)
(* The release the last handler performed, read back from the state it     *)
(* left: the handlers leave the world alone, and the visible set of the    *)
(* state is the one the handler used.                                      *)
(***************************************************************************)
Released == ev.kind = "left_up" /\ zip(ev.drag) # None
RelStart == Unwrap(zip(ev.drag)).start
RelCurrent == Unwrap(zip(ev.drag)).current
RelElapsed == time_seconds - Unwrap(zip(ev.drag)).current_start_time
\* the release went on to the path search
RelSearched ==
    /\ Released
    /\ RelStart # RelCurrent
    /\ exists(RelStart)
    /\ exists(RelCurrent)
RelSource == Unwrap(chunk[RelStart])
RelPath == find_best_path(RelStart, RelCurrent, max_edge_distance(RelSource), visible)
RelFound == RelSearched /\ RelPath # None
RelPerilous == \E i \in 1 .. Len(Unwrap(RelPath)) : is_perilous(Unwrap(RelPath)[i])
RelRuler == RelSource.units.ruler
Orders == {"DeployForce", "SetSupplyLine"}
Dispatched == \E i \in 1 .. Len(outbox) : outbox[i].type \in Orders

\* C1: a release never dispatches a Deploy or SetSupplyLine order whose found
\* path passes through a tower the local player does not own while the source's
\* strength contains the ruler, unless the time since the drag's current target
\* last changed is at least RULER_DRAG_DELAY.
C1_SafetyGate ==
    (RelFound /\ Dispatched /\ RelPerilous /\ RelRuler) => RelElapsed >= RULER_DRAG_DELAY

C1_Witness ==
    /\ RelFound /\ RelPerilous /\ RelRuler
    /\ Dispatched
    /\ RelElapsed >= RULER_DRAG_DELAY

\* C2: while dragging, a step that resolves the cursor to a tower other than the
\* drag's previous current (or when the previous current was None) stamps the
\* present time; a step that resolves it to the same tower keeps the timestamp.
C2_Step ==
    (drag # None /\ drag' # None /\ Unwrap(drag').current # None) =>
        LET old == Unwrap(drag).current
            new == Unwrap(Unwrap(drag').current)
        IN  IF old # None /\ Unwrap(old).id = new.id
            THEN new.time = Unwrap(old).time
            ELSE new.time = time_seconds'

C2_TimerReset == [][C2_Step]_vars

\* a drag whose target changed after the drag had begun, and was stamped then
C2_Witness ==
    /\ ev.kind = "update"
    /\ drag # None
    /\ Unwrap(drag).current # None
    /\ Unwrap(Unwrap(drag).current).id # Unwrap(drag).start
    /\ Unwrap(Unwrap(drag).current).time = time_seconds
    /\ time_seconds > 0

\* C3: a release over a perilous path carrying the ruler dispatches no order
\* before RULER_DRAG_DELAY has elapsed since the drag's current last changed, and
\* dispatches the order once that much time has elapsed.
C3_GateTiming ==
    (RelFound /\ RelPerilous /\ RelRuler) =>
        (Dispatched <=> RelElapsed >= RULER_DRAG_DELAY)

C3_Witness ==
    /\ RelFound /\ RelPerilous /\ RelRuler
    /\ RelElapsed < RULER_DRAG_DELAY
    /\ RelElapsed > 0
    /\ outbox = <<>>

\* C4: when the release finds a path and either no tower of the path is perilous
\* or the source's strength has no ruler, the order is dispatched however little
\* time has elapsed since the drag target last changed.
C4_PassThrough ==
    (RelFound /\ (~RelPerilous \/ ~RelRuler)) => Dispatched

C4_Witness ==
    /\ RelFound
    /\ ~RelPerilous
    /\ RelRuler
    /\ RelElapsed = 0
    /\ Dispatched

\* C5 as stated: a release over a found path from a source with non-empty
\* strength dispatches exactly one of Deploy / SetSupplyLine.
C5_Original ==
    (RelFound /\ ~RelSource.units.empty) =>
        (Len(outbox) = 1 /\ outbox[1].type \in Orders)

\* C5 amended: a release over a found path that the safety gate lets through
\* dispatches exactly one order, a Deploy or a SetSupplyLine; a release the gate
\* refuses dispatches none.
C5_ExactlyOne ==
    RelFound =>
        IF GateOpen(Unwrap(RelPath), RelSource.units,
                    Unwrap(zip(ev.drag)).current_start_time, time_seconds)
        THEN Len(outbox) = 1 /\ outbox[1].type \in Orders
        ELSE outbox = <<>>

C5_Witness ==
    /\ RelFound
    /\ ~RelSource.units.empty
    /\ Len(outbox) = 1
    /\ outbox[1].type = "SetSupplyLine"

shortened(tower) == max_edge_distance(tower) # tower.tower_type.ranged_distance

\* C6 as stated: every SetSupplyLine order, of a release or of the Shift+R
\* clearing, is for a tower that produces mobile units and whose range is not
\* shortened by its units.
C6_Original ==
    \A i \in 1 .. Len(outbox) :
        outbox[i].type = "SetSupplyLine" =>
            LET id == Unwrap(outbox[i].tower_id)
            IN  /\ exists(id)
                /\ Unwrap(chunk[id]).tower_type.generates_mobile_units
                /\ ~shortened(Unwrap(chunk[id]))

\* C6 amended: a SetSupplyLine order of a release is for the drag's start, which
\* produces mobile units and whose range is not shortened; a SetSupplyLine order
\* of the frame update clears (path None) the line of an existing tower that has
\* a supply line, whatever its type and range.
C6_SupplyLineOnly ==
    \A i \in 1 .. Len(outbox) :
        outbox[i].type = "SetSupplyLine" =>
            LET id == Unwrap(outbox[i].tower_id)
            IN  /\ exists(id)
                /\ IF ev.kind = "left_up"
                   THEN /\ RelFound
                        /\ id = RelStart
                        /\ Unwrap(chunk[id]).tower_type.generates_mobile_units
                        /\ ~shortened(Unwrap(chunk[id]))
                   ELSE /\ ev.kind = "update"
                        /\ outbox[i].path = None
                        /\ Unwrap(chunk[id]).supply_line # None

C6_Witness ==
    /\ RelFound
    /\ Len(outbox) = 1
    /\ outbox[1].type = "SetSupplyLine"
    /\ outbox[1].path # None
    /\ RelSource.units.empty

C8_NoPath ==
    (RelSearched /\ RelPath = None) =>
        /\ outbox = <<>>
        /\ ~fault
        /\ drag = None

C8_Witness ==
    /\ RelSearched
    /\ RelPath = None
    /\ outbox = <<>>
    /\ drag = None

\* C9: after every left button release, whatever branch it took, no drag is active.
C9_Idle == ev.kind = "left_up" => drag = None

\* a release the gate refused
C9_Witness ==
    /\ RelFound /\ RelPerilous /\ RelRuler
    /\ RelElapsed = 0
    /\ outbox = <<>>
    /\ drag = None

\* C10: a left button press while idle and not panning over a visible tower n
\* begins a drag with start n and current (n, now), and clears the selection
\* iff the selected tower was not n.
C10_Press ==
    (ev.kind = "left_down" /\ ev.drag = None /\ ~panning /\ ev.pos # None) =>
        LET n == Unwrap(ev.pos)
        IN  /\ n \in visible
            /\ drag = Some([start |-> n,
                            current |-> Some([id |-> n, time |-> time_seconds])])
            /\ selected_tower_id = IF ev.selected = Some(n) THEN Some(n) ELSE None

C10_Witness ==
    /\ ev.kind = "left_down"
    /\ ev.drag = None
    /\ ev.pos # None
    /\ ev.selected = ev.pos
    /\ selected_tower_id = ev.pos
    /\ drag # None

\* C11 as stated: after every left button press whose position resolves to no
\* visible tower, no tower is selected, also when panning or a drag is active.
C11_Original ==
    [][\A pos \in PointInputs :
          (LeftDown(pos) /\ PressHit(pos, update_visible) = None) =>
              selected_tower_id' = None]_vars

\* C11 amended: after a left button press received while no drag is active and
\* the camera is not panning, whose position resolves to no visible tower, no
\* tower is selected and no drag has begun; a press received while panning or
\* while a drag is active leaves the selection as it was.
C11_PressMiss ==
    ev.kind = "left_down" =>
        IF ev.drag = None /\ ~panning
        THEN ev.pos = None => (selected_tower_id = None /\ drag = None)
        ELSE selected_tower_id = ev.selected

C11_Witness ==
    /\ ev.kind = "left_down"
    /\ ev.drag = None
    /\ ~panning
    /\ ev.pos = None
    /\ ev.selected # None
    /\ selected_tower_id = None

\* C12: a frame of a living player that finds the cursor over no visible tower
\* while a drag is active sets the drag's current to None and keeps the drag
\* and its start; a frame that finds the cursor over a visible tower leaves the
\* drag, whether its current was None or not, with that tower as current.
C12_FogKeepsDrag ==
    (ev.kind = "update" /\ alive /\ ev.moved # None) =>
        LET hit == Unwrap(ev.moved).hit
        IN  /\ drag # None
            /\ Unwrap(drag).start = Unwrap(ev.moved).start
            /\ IF hit = None
               THEN Unwrap(drag).current = None
               ELSE /\ Unwrap(drag).current # None
                    /\ Unwrap(Unwrap(drag).current).id = Unwrap(hit)

\* a drag whose cursor is over fog
C12_Witness ==
    /\ ev.kind = "update"
    /\ alive
    /\ ev.moved # None
    /\ Unwrap(ev.moved).hit = None
    /\ drag # None
    /\ Unwrap(drag).current = None

\* C13: a release while the drag's current is None (the cursor is over fog)
\* sends no order, reaches no path search (so cannot fault there), ends the
\* drag and leaves no tower selected.
C13_FogRelease ==
    (ev.kind = "left_up" /\ ev.drag # None /\ Unwrap(ev.drag).current = None) =>
        /\ outbox = <<>>
        /\ ~fault
        /\ drag = None
        /\ selected_tower_id = None

\* the dragged tower was the selected one, and the release was over fog
C13_Witness ==
    /\ ev.kind = "left_up"
    /\ ev.drag # None
    /\ Unwrap(ev.drag).current = None
    /\ ev.selected = Some(Unwrap(ev.drag).start)
    /\ selected_tower_id = None
    /\ drag = None

\* C14: a release with start # current when the start or the current tower no
\* longer exists leaves no tower selected, sends no order and reaches no path
\* search.
C14_Vanished ==
    (Released /\ RelStart # RelCurrent /\ ~(exists(RelStart) /\ exists(RelCurrent))) =>
        /\ selected_tower_id = None
        /\ outbox = <<>>
        /\ ~fault
        /\ drag = None

\* the dragged tower was the selected one, and the target vanished before the release
C14_Witness ==
    /\ Released
    /\ RelStart # RelCurrent
    /\ exists(RelStart)
    /\ ~exists(RelCurrent)
    /\ ev.selected = Some(RelStart)
    /\ selected_tower_id = None
    /\ outbox = <<>>

\* C15: in no reachable state is the camera panning while a drag is active.
C15_Exclusive == ~(panning /\ drag # None)

\* C16 as stated: after every right button press no tower is selected and the
\* camera is panning.
C16_Original ==
    [][RightButton(TRUE) => (selected_tower_id' = None /\ panning')]_vars

\* C16 amended: after every right button press the camera is panning; no tower
\* is selected if no drag was active, and the selection is as it was if a drag
\* was active (the menu is hidden, not closed, during a drag).
C16_Step ==
    RightButton(TRUE) =>
        /\ panning'
        /\ drag' = drag
        /\ selected_tower_id' = IF drag = None THEN None ELSE selected_tower_id

C16_RightDown == [][C16_Step]_vars

\* the right button was pressed during a drag of the selected tower
C16_Witness ==
    /\ panning
    /\ drag # None
    /\ selected_tower_id = Some(Unwrap(drag).start)

(***************************************************************************)
(* The viewport order of the step's frame, read from the step              *)
(***************************************************************************)
SentViewport(box) == {i \in 1 .. Len(box) : box[i].type = "SetViewport"}
FrameElapsed == time_seconds' - time_seconds

\* C17: a frame sends SetViewport only if the rectangle it computed differs
\* from the one last sent and the rate limiter, advanced by the frame's elapsed
\* time, is ready; the rectangle sent is the computed one and becomes the last
\* sent one.
C17_Step ==
    \A i \in SentViewport(outbox') :
        LET rect == Unwrap(outbox'[i].viewport)
        IN  /\ rect = send_viewport(pan_zoom')
            /\ Some(rect) # set_viewport
            /\ set_viewport_rate_limit + FrameElapsed >= SET_VIEWPORT_PERIOD
            /\ set_viewport' = Some(rect)

C17_SendGuard == [][C17_Step]_vars

\* the rectangle of a moved camera was sent
C17_Witness ==
    /\ SentViewport(outbox) # {}
    /\ set_viewport = Some(send_viewport(pan_zoom))
    /\ pan_zoom # DefaultPanZoom
    /\ sent_at = Some(time_seconds)

\* C18: when a frame sends SetViewport after an earlier frame sent one, the
\* elapsed time of the frames between the two, the sending frame included, is
\* at least the rate limiter's period.
C18_Step ==
    (SentViewport(outbox') # {} /\ sent_at # None) =>
        time_seconds' - Unwrap(sent_at) >= SET_VIEWPORT_PERIOD

C18_OncePerPeriod == [][C18_Step]_vars

\* a second SetViewport, sent exactly one period after the first
C18_Witness ==
    /\ SentViewport(outbox) # {}
    /\ sent_at = Some(time_seconds)
    /\ time_seconds >= 2 * SET_VIEWPORT_PERIOD
    /\ time_seconds < 3 * SET_VIEWPORT_PERIOD
    /\ set_viewport # Some(send_viewport(DefaultPanZoom))

\* C19: every frame advances the rate limiter by its elapsed time, sending or
\* not (a send restarts it); and every frame in which the limiter is ready and
\* the computed rectangle differs from the last sent one sends SetViewport with
\* the rectangle computed in that frame, whatever rectangles the frames in
\* between computed.
C19_Step ==
    ev'.kind = "update" =>
        LET rect == send_viewport(pan_zoom')
            ready == set_viewport_rate_limit + FrameElapsed >= SET_VIEWPORT_PERIOD
        IN  /\ SentViewport(outbox') = {} =>
                   set_viewport_rate_limit' = set_viewport_rate_limit + FrameElapsed
            /\ SentViewport(outbox') # {} => set_viewport_rate_limit' = 0
            /\ (ready /\ Some(rect) # set_viewport) =>
                   /\ \E i \in SentViewport(outbox') : outbox'[i] = SetViewport(rect)
                   /\ set_viewport' = Some(rect)

C19_Coalesced == [][C19_Step]_vars

\* a frame saw a new rectangle while the limiter was not ready: the send is pending
C19_Witness ==
    /\ ev.kind = "update"
    /\ set_viewport # None
    /\ Some(send_viewport(pan_zoom)) # set_viewport
    /\ set_viewport_rate_limit > 0
    /\ set_viewport_rate_limit < SET_VIEWPORT_PERIOD

\* C20: after a frame update run while the player is not alive, no drag is
\* active and no tower is selected, whatever they were before.
C20_Death ==
    (ev.kind = "update" /\ ~alive) => (drag = None /\ selected_tower_id = None)

\* the player died while dragging the selected tower
C20_Witness ==
    /\ ev.kind = "update"
    /\ ~alive
    /\ ev.drag # None
    /\ ev.selected # None
    /\ drag = None
    /\ selected_tower_id = None

\* the towers a drag rests on: its start and, when resolved, its current
Underlying(d) ==
    {Unwrap(d).start} \cup
    (IF Unwrap(d).current = None THEN {} ELSE {Unwrap(Unwrap(d).current).id})

\* C21: a frame whose visibility refresh leaves a tower under the drag invisible
\* or gone ends the drag in that frame, without waiting for the release.
C21_Step ==
    (/\ ev'.kind = "update"
     /\ drag # None
     /\ \E n \in Underlying(drag) : n \notin visible' \/ ~exists(n)) => drag' = None

C21_Retracted == [][C21_Step]_vars

\* the orders a retry would repeat: a Deploy, or a SetSupplyLine that carries a path
PathOrder(c) == c.type \in Orders /\ c.path # None

\* C22: no order is retried. An order with a path leaves only in a left button
\* release that resolves a drag and ends it, and a drag begins only in a left
\* button press: after a release that sent nothing, frames and mouse moves send
\* no such order until a new press and release.
C22_Step ==
    /\ (\E i \in 1 .. Len(outbox') : PathOrder(outbox'[i])) =>
           /\ ev'.kind = "left_up"
           /\ zip(drag) # None
           /\ drag' = None
    /\ (drag = None /\ drag' # None) => ev'.kind = "left_down"

C22_NoRetry == [][C22_Step]_vars

\* a frame with no drag, late enough for a refused order to pass the gate now,
\* that sends nothing
C22_Witness ==
    /\ ev.kind = "update"
    /\ drag = None
    /\ selected_tower_id # None
    /\ alive
    /\ time_seconds >= RULER_DRAG_DELAY
    /\ outbox = <<>>

\* what a refresh of the visible set yields in the current world
Fresh == {n \in TowerIds : exists(n) /\ (~alive \/ n \in observable)}

\* the towers strictly between the ends of a path
Interior(path) == {path[i] : i \in 2 .. (Len(path) - 1)}

\* C23: every mouse handler and every frame update refreshes the visible set
\* before its hit test and its path search, which read that one refreshed set:
\* after the call the set is fresh, the tower a press or a move resolved is in
\* it, and so is every tower inside a path that was sent.
C23_RefreshFirst ==
    /\ (ev.kind \in {"left_down", "left_up", "update"} /\ player_id # None) =>
           ~visible_stale /\ visible = Fresh
    /\ (ev.kind = "left_down" /\ ev.pos # None) => Unwrap(ev.pos) \in visible
    /\ (ev.moved # None /\ Unwrap(ev.moved).hit # None) =>
           Unwrap(Unwrap(ev.moved).hit) \in visible
    /\ \A i \in 1 .. Len(outbox) :
           PathOrder(outbox[i]) => Interior(Unwrap(outbox[i].path)) \subseteq visible

\* a release whose target is in range but whose path search fails, the tower
\* between the ends having left the visible set
C23_Witness ==
    /\ RelSearched
    /\ RelPath = None
    /\ Len(Road(RelStart, RelCurrent)) - 1 <= max_edge_distance(RelSource)
    /\ \E n \in Interior(Road(RelStart, RelCurrent)) : exists(n) /\ n \notin visible
    /\ outbox = <<>>

\* the cells of the radius-1 square around the cell nearest to point
Neighbourhood(point) == {point - 1, point, point + 1}

\* the towers get_closest may return for point: existing, visible, in the square
Candidates(point) == {t \in Neighbourhood(point) \cap TowerIds : exists(t) /\ t \in visible}

\* C24: get_closest returns None exactly when the radius-1 square around the
\* nearest cell holds no existing visible tower, and a tower it returns exists,
\* is visible and lies in that square; so the start of a drag and every resolved
\* current existed and were visible when resolved.
C24_Closest ==
    /\ \A point \in Points :
           LET closest == get_closest(point, visible)
           IN  /\ closest = None <=> Candidates(point) = {}
               /\ closest # None => Unwrap(closest) \in Candidates(point)
    /\ (ev.kind = "left_down" /\ ev.pos # None) =>
           /\ exists(Unwrap(ev.pos)) /\ Unwrap(ev.pos) \in visible
           /\ drag = NewDrag(Unwrap(ev.pos), time_seconds)
    /\ (ev.moved # None /\ Unwrap(ev.moved).hit # None) =>
           /\ exists(Unwrap(Unwrap(ev.moved).hit))
           /\ Unwrap(Unwrap(ev.moved).hit) \in visible
           /\ Unwrap(Unwrap(drag).current).id = Unwrap(Unwrap(ev.moved).hit)

\* a frame resolved the cursor of a drag to nothing although a tower of the
\* world exists in the square of some point: it is not visible
C24_Witness ==
    /\ ev.moved # None
    /\ Unwrap(ev.moved).hit = None
    /\ \E point \in Points :
           /\ get_closest(point, visible) = None
           /\ \E t \in Neighbourhood(point) \cap TowerIds : exists(t) /\ t \notin visible

\* the squared distance between a tower and the cursor
DistanceSquared(t, point) == (t - point) * (t - point)

\* the place of a cell in the enumeration of the square around point
EnumerationIndex(t, point) == t - point + 2

\* C25: the tower get_closest returns is, among the existing visible towers of
\* the square, one at minimal squared distance from the point, and the first of
\* the enumeration among those at that distance.
C25_Nearest ==
    \A point \in Points :
        LET closest == get_closest(point, visible)
        IN  closest # None =>
                \A c \in Candidates(point) :
                    /\ DistanceSquared(Unwrap(closest), point) <= DistanceSquared(c, point)
                    /\ DistanceSquared(Unwrap(closest), point) = DistanceSquared(c, point) =>
                           EnumerationIndex(Unwrap(closest), point) <= EnumerationIndex(c, point)

\* a frame resolved the cursor of a drag to the first of two towers at the same
\* distance, the cell between them holding no visible tower
C25_Witness ==
    \E point \in TowerIds :
        /\ Candidates(point) = {point - 1, point + 1}
        /\ get_closest(point, visible) = Some(point - 1)
        /\ ev.moved # None
        /\ Unwrap(ev.moved).hit = Some(point - 1)

\* the range the claim gives the source of a release, from its state at the release
RelRange ==
    IF RelSource.units.empty
    THEN RelSource.tower_type.ranged_distance
    ELSE IF RelSource.units.max_edge_distance < RelSource.tower_type.ranged_distance
    THEN RelSource.units.max_edge_distance
    ELSE RelSource.tower_type.ranged_distance

\* the number of edges between the ends of a release
RelEdges == Len(Road(RelStart, RelCurrent)) - 1

\* C26: the path search of a release is bounded by the smaller of the range of
\* the source's type and the travel distance of its strength, or by the range of
\* the type alone when the strength is empty, taken from the source as it is at
\* the release: a target farther away gets no order, a sent path is within that
\* range, and a target within it gets its order when nothing else stands in the way.
C26_Range ==
    RelSearched =>
        /\ RelEdges > RelRange => outbox = <<>>
        /\ \A i \in 1 .. Len(outbox) :
               PathOrder(outbox[i]) => Len(Unwrap(outbox[i].path)) - 1 <= RelRange
        /\ (/\ RelEdges <= RelRange
            /\ \A n \in Interior(Road(RelStart, RelCurrent)) : exists(n) /\ n \in visible
            /\ ~RelSource.units.ruler) => Dispatched

\* a release from a source the server changed: its target is within the range
\* the source had when the world was loaded and beyond the range it has now
C26_Witness ==
    /\ RelSearched
    /\ touched = Some(RelStart)
    /\ RelEdges <= MaxDistance
    /\ RelEdges > RelRange
    /\ \A n \in Interior(Road(RelStart, RelCurrent)) : exists(n) /\ n \in visible
    /\ outbox = <<>>

\* the owner of tower n is not the local player (nobody owning it included)
Foreign(n) == Unwrap(chunk[n]).player_id # player_id

\* a release that found a path while the source holds the ruler and the delay
\* has not passed: the gate lets the order through exactly when the path is not
\* perilous
RelGated == RelFound /\ RelRuler /\ RelElapsed < RULER_DRAG_DELAY

\* C27 as claimed: a path is perilous exactly when a tower after its source has
\* a foreign owner; who owns the source does not matter.
C27_Original ==
    RelGated =>
        (outbox = <<>> <=> \E i \in 2 .. Len(Unwrap(RelPath)) : Foreign(Unwrap(RelPath)[i]))

\* C27: a path is perilous exactly when some tower of it, the source included,
\* has an owner that differs from the local player, nobody owning it counting
\* as differing.
C27_Perilous ==
    RelGated =>
        (outbox = <<>> <=> \E i \in 1 .. Len(Unwrap(RelPath)) : Foreign(Unwrap(RelPath)[i]))

\* the gate refused a path whose only foreign tower is its source
C27_Witness ==
    /\ RelGated
    /\ Foreign(RelStart)
    /\ \A i \in 2 .. Len(Unwrap(RelPath)) : ~Foreign(Unwrap(RelPath)[i])
    /\ outbox = <<>>

\* C28: the world is read-only for the client: no handler, frame update, menu
\* event or script action changes a tower, its supply line included.
C28_Step == chunk' # chunk => ev'.kind = "other"

C28_ReadOnly == [][C28_Step]_vars

\* C29: no handler ends in a fault: whatever the state and the input, the
\* handler completes, and a release between two different existing towers
\* reaches the path search with the local player known.
C29_NoFault ==
    /\ ~fault
    /\ RelSearched => player_id # None
    /\ drag # None => player_id # None

\* a release between two different existing towers went through the path search
\* and completed, in a session that has its player
C29_Witness ==
    /\ RelSearched
    /\ player_id = Some(Me)
    /\ ~fault
    /\ drag = None

\* C30: the selection persists: a frame of a living player with no pan or zoom
\* key down and a mouse move leave it as it is, and so does the server; it
\* changes only in a left button press or release, a right button or wheel
\* event, a frame with a key down or of a dead player, an Alliance or Upgrade
\* event of the menu, or a select or deselect action of a script.
C30_Step ==
    selected_tower_id' # selected_tower_id =>
        \/ ev'.kind \in {"left_down", "left_up"}
        \/ /\ ev'.kind = "update"
           /\ \/ ~alive
              \/ ~\E elapsed \in {0, TimeStep}, in \in FrameInputs :
                     in.keys = {} /\ update(elapsed, in.pos, in.shift_r, in.keys)
        \/ /\ ev'.kind = "other"
           /\ ~MoveViewSpace(0)
           /\ ~ViewServerUpdate
        \/ /\ ev'.kind = "ui"
           /\ \E i \in 1 .. Len(outbox') : outbox'[i].type \in {"Alliance", "Upgrade"}
        \/ /\ ev'.kind = "script"
           /\ \E action \in ScriptActions :
                 /\ action.type \in {"select_tower", "deselect_tower"}
                 /\ kiomet_do_action(action)

C30_Persists == [][C30_Step]_vars

\* a frame of a living player left a menu open that no drag was hiding: no key
\* was down, and the selection made before the frame is still there
C30_Witness ==
    /\ ev.kind = "update"
    /\ alive
    /\ was_alive
    /\ drag = None
    /\ selected_tower_id # None
    /\ time_seconds >= TimeStep

\* C31: whatever the pointer events, frames and menu events, while a drag is
\* active the selection is either empty or the tower the drag began on.
C31_DragSelection ==
    drag # None => selected_tower_id \in {None, Some(Unwrap(drag).start)}

\* a menu event arrived during a drag of the selected tower and left it selected
C31_Witness ==
    /\ ev.kind = "ui"
    /\ drag # None
    /\ selected_tower_id = Some(Unwrap(drag).start)

\* the release sets the supply line of its source, as the claim has it: the
\* source was selected, produces mobile units, and its range is not shortened
RelSupplies ==
    /\ ev.selected = Some(RelStart)
    /\ RelSource.tower_type.generates_mobile_units
    /\ RelRange = RelSource.tower_type.ranged_distance

C33_ClearOrSet ==
    (RelFound /\ Len(outbox) = 1 /\ outbox[1].type = "SetSupplyLine") =>
        /\ outbox[1].path = None <=> RelSource.supply_line = RelPath
        /\ outbox[1].path # None => outbox[1].path = RelPath

\* the selected tower was dragged along its own supply line: the release clears it
C33_Witness ==
    /\ RelFound
    /\ RelSource.supply_line = RelPath
    /\ Len(outbox) = 1
    /\ outbox[1].type = "SetSupplyLine"
    /\ outbox[1].path = None

\* a step of one of the handlers that close the menu: the right button going
\* down or up, the wheel, an Alliance or Upgrade event, or a frame of a living
\* player with a pan or zoom key down
MenuClosing ==
    \/ \E down \in BOOLEAN : RightButton(down)
    \/ Wheel(0)
    \/ \E event \in MenuEvents : event.type \in {"Alliance", "Upgrade"} /\ ui(event)
    \/ /\ alive
       /\ \E elapsed \in {0, TimeStep}, in \in FrameInputs :
             in.keys # {} /\ update(elapsed, in.pos, in.shift_r, in.keys)

\* C34: a handler that closes the menu leaves the selection as it is while a
\* drag is active, and empties it when no drag is active.
C34_Step ==
    (\/ drag # None /\ selected_tower_id' # selected_tower_id
     \/ drag = None /\ selected_tower_id' # None) => ~MenuClosing

C34_MenuClosing == [][C34_Step]_vars

\* an Upgrade event arrived during a drag of the selected tower: the order went
\* out and the tower is still selected
C34_Witness ==
    /\ ev.kind = "ui"
    /\ outbox = <<PassThrough("Upgrade")>>
    /\ drag # None
    /\ selected_tower_id # None

\* C35: the selected tower every frame hands to the UI is absent while a drag is
\* active or when the selected tower is not in the world, and otherwise is the
\* tower of the selection, as the world has it.
C35_Menu ==
    ev.kind = "update" =>
        /\ ui_props # None
        /\ LET selected_tower == Unwrap(ui_props).selected_tower
           IN  IF drag # None \/ selected_tower_id = None
               THEN selected_tower = None
               ELSE IF ~exists(Unwrap(selected_tower_id))
               THEN selected_tower = None
               ELSE /\ selected_tower # None
                    /\ Unwrap(selected_tower).tower_id = Unwrap(selected_tower_id)
                    /\ Some(Unwrap(selected_tower).tower) = chunk[Unwrap(selected_tower_id)]

\* a frame during a drag of the selected tower, which exists: no menu is handed on
C35_Witness ==
    /\ ev.kind = "update"
    /\ drag # None
    /\ selected_tower_id = Some(Unwrap(drag).start)
    /\ exists(Unwrap(drag).start)
    /\ ui_props # None
    /\ Unwrap(ui_props).selected_tower = None

\* the countdown the preview shows for the drag of a release, at the time of
\* the release and with the visible set the release used
RelCountdown == PreviewCountdown(ev.drag, ev.selected, visible, time_seconds)

\* C36: the preview and the gate agree: when the preview shows the ruler
\* countdown for the path of a release, it shows it as ready exactly when the
\* release passes the gate and sends its order.
C36_PreviewGate ==
    (RelFound /\ RelCountdown # None) => (Unwrap(RelCountdown) <=> Dispatched)

\* C37: for the drag, selection and world of a release that sends its order, the
\* preview draws a supply line exactly when the order is SetSupplyLine and not
\* Deploy, and the preview and the release work with the same range.
C37_PreviewRelease ==
    (RelFound /\ Dispatched) =>
        /\ do_supply_line(ev.selected, RelSource) <=> outbox[1].type = "SetSupplyLine"
        /\ preview_max_edge_distance(RelSource) = max_edge_distance(RelSource)

\* C38: a left button press that arrives while a drag is active or while the
\* view is being panned leaves the drag (start, current and timestamp) and the
\* selection as they were, wherever the cursor is.
C38_PressIgnored ==
    (ev.kind = "left_down" /\ (ev.drag # None \/ panning)) =>
        /\ drag = ev.drag
        /\ selected_tower_id = ev.selected

\* a second press arrived during the drag of the selected tower
C38_Witness ==
    /\ ev.kind = "left_down"
    /\ ev.drag # None
    /\ ev.selected # None
    /\ drag = ev.drag

\* a press arrived while panning
C38_Panning == ev.kind = "left_down" /\ panning /\ ev.drag = None

\* the clears a frame sent: the SetSupplyLine commands without a path
Clears(box) ==
    {i \in 1 .. Len(box) : box[i].type = "SetSupplyLine" /\ box[i].path = None}

\* C39: a frame sends at most one clear of a supply line, and only for a tower
\* that exists and has a supply line; with a tower selected the clear is for
\* that tower, and with none selected it is sent only when the tick flag was
\* set, for a visible tower of the local player.
C39_Step ==
    (ev'.kind = "update" /\ Clears(outbox') # {}) =>
        /\ Cardinality(Clears(outbox')) = 1
        /\ \A i \in Clears(outbox') :
               LET id == Unwrap(outbox'[i].tower_id)
               IN  /\ exists(id)
                   /\ Unwrap(chunk[id]).supply_line # None
                   /\ IF selected_tower_id # None
                      THEN id = Unwrap(selected_tower_id)
                      ELSE /\ ticked
                           /\ ~ticked'
                           /\ id \in visible'
                           /\ player_id # None
                           /\ Unwrap(chunk[id]).player_id = player_id
ScriptFields == <<chunk, selected_tower_id, pan_zoom, drag, panning>>

\* C40: without a registered game the call returns false; with one, an action
\* that parses as a Command returns true, select_tower returns true and leaves
\* the given tower selected, whether or not it exists or a drag is active,
\* deselect_tower returns true and leaves no tower selected, and any other
\* action returns false and changes nothing.
C40_Step ==
    ev'.kind = "script" =>
        LET action == Unwrap(ev'.action)
        IN  /\ \A a \in ScriptActions : ~ScriptResult(None, a)
            /\ action.type \in {"SetSupplyLine", "Upgrade"} => ev'.result = Some(TRUE)
            /\ action.type = "select_tower" =>
                   /\ ev'.result = Some(TRUE)
                   /\ selected_tower_id' = Some(action.tower_id)
            /\ action.type = "deselect_tower" =>
                   /\ ev'.result = Some(TRUE)
                   /\ selected_tower_id' = None
            /\ action.type = "unknown" =>
                   /\ ev'.result = Some(FALSE)
                   /\ UNCHANGED ScriptFields
C40_DoAction == [][C40_Step]_vars

====
